---- MODULE Spec2Model ----
(***************************************************************************)
(* Model of criterion_cbor: the ordered walk of Criterion's data           *)
(* directory and its grouping into benchmarks (src/src/lib.rs, Search and  *)
(* BenchmarkIter), and the decoding of raw benchmark identifiers           *)
(* (RawBenchmarkId::decode), and the update of the SQLite database from    *)
(* the data directory (src/src/sqlite.rs, Connection::setup).              *)
(*                                                                         *)
(* A path is the sequence of its components below the data root; the data  *)
(* root is <<>>.  The kind of an entry is fixed by its name (see KindOf),  *)
(* so the file system is the set of the paths that exist.                  *)
(***************************************************************************)
EXTENDS Integers, Sequences, FiniteSets, TLC

VARIABLES
    fs,                    \* paths that exist below the data root
    data_root_exists,      \* target/criterion/data/main exists
    phase,                 \* "setup" | "iterating" | "panicked"
    filtered,              \* the walker is wrapped by filter_entry (find_in_paths)
    path_filter,           \* directories the caller's predicate accepts
    no_data,               \* BenchmarkIter::no_data
    walker,                \* Peekable<Walker>: walkdir's state and the peeked slot
    files_in_current_dir,  \* BenchmarkIter::files_in_current_dir
    yielded,               \* Some(..) items returned by next() so far
    last,                  \* what the latest call of next() returned
    panic,                 \* the assertion that failed, "none" if none did
    raw,                   \* a RawBenchmarkId read from a benchmark.cbor file
    decoded,               \* what RawBenchmarkId::decode made of it
    first_run,             \* what an earlier walk of the same tree yielded
    cargo_root,            \* whether the Cargo root and its target/ exist
    record,                \* a measurement file
    data,                  \* what Measurement::data returned for it
    disk,                  \* what the file system says of the benchmark.cbor files
    db,                    \* target/criterion/data.sqlite
    setup                  \* the call of Connection::setup

vars == <<fs, data_root_exists, phase, filtered, path_filter, no_data, walker,
          files_in_current_dir, yielded, last, panic, raw, decoded,
          first_run, cargo_root, record, data, disk, db, setup>>

----------------------------------------------------------------------------
(* Bounds *)

\* Most entries the data directory holds.
MaxEntries == 5

\* Modification times, of files and as recorded in the database, are 1..MaxMtime.
MaxMtime == 2

\* Most samples a measurement file holds.
MaxSamples == 1

\* The orders in which the file system may list a directory are numbered
\* 0..MaxListing.
MaxListing == 23

\* Connection::setup is called at most MaxPasses times, one call after the
\* other.
MaxPasses == 2

----------------------------------------------------------------------------
(* Names and paths *)

DirNames == {"fib", "sort", "10"}
MeasurementNames == {"measurement_250101120000.cbor", "measurement_250102120000.cbor"}
FileNames == {"benchmark.cbor", "README", "notes.txt"} \cup MeasurementNames
OtherNames == {"link", "fifo", "lost"}

Last(s) == s[Len(s)]
Front(s) == SubSeq(s, 1, Len(s) - 1)

\* The bytes of a name (ASCII), which is what OsStr::cmp compares.
OsBytes(name) ==
    CASE name = "benchmark.cbor" ->
           <<98, 101, 110, 99, 104, 109, 97, 114, 107, 46, 99, 98, 111, 114>>
      [] name = "measurement_250101120000.cbor" ->
           <<109, 101, 97, 115, 117, 114, 101, 109, 101, 110, 116, 95, 50, 53, 48,
             49, 48, 49, 49, 50, 48, 48, 48, 48, 46, 99, 98, 111, 114>>
      [] name = "measurement_250102120000.cbor" ->
           <<109, 101, 97, 115, 117, 114, 101, 109, 101, 110, 116, 95, 50, 53, 48,
             49, 48, 50, 49, 50, 48, 48, 48, 48, 46, 99, 98, 111, 114>>
      [] name = "README" -> <<82, 69, 65, 68, 77, 69>>
      [] name = "notes.txt" -> <<110, 111, 116, 101, 115, 46, 116, 120, 116>>
      [] name = "link" -> <<108, 105, 110, 107>>
      [] name = "fifo" -> <<102, 105, 102, 111>>
      [] name = "lost" -> <<108, 111, 115, 116>>
      [] name = "fib" -> <<102, 105, 98>>
      [] name = "sort" -> <<115, 111, 114, 116>>
      [] name = "10" -> <<49, 48>>
      [] name = "measurement_" ->
           <<109, 101, 97, 115, 117, 114, 101, 109, 101, 110, 116, 95>>
      [] name = ".cbor" -> <<46, 99, 98, 111, 114>>

\* Lexicographic comparison of byte strings: "Less", "Equal" or "Greater".
RECURSIVE BytesCmp(_, _)
BytesCmp(a, b) ==
    IF a = <<>> /\ b = <<>> THEN "Equal"
    ELSE IF a = <<>> THEN "Less"
    ELSE IF b = <<>> THEN "Greater"
    ELSE IF Head(a) < Head(b) THEN "Less"
    ELSE IF Head(a) > Head(b) THEN "Greater"
    ELSE BytesCmp(Tail(a), Tail(b))

OsStrCmp(n1, n2) == BytesCmp(OsBytes(n1), OsBytes(n2))

\* parse_measurement_datetime: the digits between "measurement_" and ".cbor",
\* read as the date yymmdd and the time HHMMSS.
RECURSIVE DigitsValue(_)
DigitsValue(bytes) ==
    IF bytes = <<>> THEN 0
    ELSE 10 * DigitsValue(Front(bytes)) + (Last(bytes) - 48)

parse_measurement_datetime(file_name) ==
    LET Parsed(datetime) ==
            [date |-> DigitsValue(SubSeq(datetime, 1, Len(datetime) - 6)),
             time |-> DigitsValue(SubSeq(datetime, Len(datetime) - 5, Len(datetime)))]
    IN Parsed(SubSeq(OsBytes(file_name), Len(OsBytes("measurement_")) + 1,
                     Len(OsBytes(file_name)) - Len(OsBytes(".cbor"))))

\* t1 is a later date and time than t2.
Later(t1, t2) == t1.date > t2.date \/ (t1.date = t2.date /\ t1.time > t2.time)

\* What lstat says of an entry with this name.  "ioerr": the entry's type
\* cannot be read, so that walkdir yields an error in its place.
KindOf(name) ==
    IF name \in DirNames THEN "dir"
    ELSE IF name \in FileNames THEN "file"
    ELSE IF name = "link" THEN "symlink"
    ELSE IF name = "fifo" THEN "other"
    ELSE "ioerr"

DataRoot == <<>>
FileName(path) == Last(path)
Parent(path) == Front(path)
Depth(path) == Len(path)
Kind(path) == KindOf(FileName(path))
IsDir(path) == Kind(path) = "dir"
IsFile(path) == Kind(path) = "file"
IsSymlink(path) == Kind(path) = "symlink"

\* The directories the model may create.
DirPaths == {<<"fib">>, <<"fib", "10">>, <<"sort">>}
\* Every path the model may create.
AllPaths ==
    DirPaths \cup
    {Append(d, n) : d \in DirPaths \cup {DataRoot}, n \in FileNames \cup OtherNames}

Children(d) == {p \in fs : Depth(p) = Depth(d) + 1 /\ Parent(p) = d}

----------------------------------------------------------------------------
(* walkdir, as Search::in_target_dir configures it: min_depth(1), links not *)
(* followed, every directory's entries sorted by the comparator.            *)

NoneItem == [tag |-> "none", path |-> <<>>]
OkItem(path) == [tag |-> "ok", path |-> path]
ErrItem(path) == [tag |-> "err", path |-> path]
\* What read_dir yields for an entry: the entry, or an I/O error.
ItemOf(path) == IF Kind(path) = "ioerr" THEN ErrItem(path) ELSE OkItem(path)

\* The comparator with the file names compared the other way round.
sort_by_cmpAscending(entry1, entry2) ==
    IF Kind(entry1) \notin {"dir", "file"} \/ Kind(entry2) \notin {"dir", "file"}
    THEN "Panic"
    ELSE IF IsFile(entry1) /\ ~IsFile(entry2) THEN "Less"
    ELSE IF ~IsFile(entry1) /\ IsFile(entry2) THEN "Greater"
    ELSE OsStrCmp(FileName(entry1), FileName(entry2))

\* A comparator that orders nothing: the entries stay as the file system
\* lists them.
sort_by_cmpNoOrder(entry1, entry2) == "Equal"

\* The comparator handed to sort_by.  is_file_not_dir asserts that the entry
\* is a file or a directory: "Panic" when it is not.
sort_by_cmp(entry1, entry2) ==
    IF Kind(entry1) \notin {"dir", "file"} \/ Kind(entry2) \notin {"dir", "file"}
    THEN "Panic"
    ELSE IF IsFile(entry1) /\ ~IsFile(entry2) THEN "Less"
    ELSE IF ~IsFile(entry1) /\ IsFile(entry2) THEN "Greater"
    ELSE IF IsFile(entry1) /\ IsFile(entry2)
         THEN OsStrCmp(FileName(entry2), FileName(entry1))
    ELSE OsStrCmp(FileName(entry1), FileName(entry2))

\* walkdir sorts Result<DirEntry>: the comparator sees two entries, errors
\* are equal to one another and less than every entry.
ItemCmp(a, b) ==
    IF a.tag = "ok" /\ b.tag = "ok" THEN sort_by_cmp(a.path, b.path)
    ELSE IF a.tag = "err" /\ b.tag = "err" THEN "Equal"
    ELSE IF a.tag = "ok" THEN "Greater"
    ELSE "Less"

\* Stable insertion of x into the sorted s, comparing from the right.
RECURSIVE InsertSorted(_, _)
InsertSorted(s, x) ==
    LET Moved(r) ==
            IF r.panic THEN r
            ELSE [panic |-> FALSE, list |-> Append(r.list, Last(s))]
        Placed(c) ==
            IF c = "Panic" THEN [panic |-> TRUE, list |-> <<>>]
            ELSE IF c = "Less" THEN Moved(InsertSorted(Front(s), x))
            ELSE [panic |-> FALSE, list |-> Append(s, x)]
    IN IF s = <<>> THEN [panic |-> FALSE, list |-> <<x>>]
       ELSE Placed(ItemCmp(x, Last(s)))

RECURSIVE SortItems(_, _)
SortItems(sorted, rest) ==
    LET Rest(r) == IF r.panic THEN r ELSE SortItems(r.list, Tail(rest))
    IN IF rest = <<>> THEN [panic |-> FALSE, list |-> sorted]
       ELSE Rest(InsertSorted(sorted, Head(rest)))

\* The entry of paths that has k entries of paths before it by name.
Nth(paths, k) ==
    CHOOSE p \in paths :
      Cardinality({q \in paths : OsStrCmp(FileName(q), FileName(p)) = "Less"}) = k

\* read_dir: the entries of a directory in an order of the file system's,
\* the one of number listing (every order of up to four entries has a number
\* below 24; number 0 is the order of the names).
RECURSIVE ReadDir(_, _)
ReadDir(paths, listing) ==
    LET From(p) ==
            <<ItemOf(p)>> \o ReadDir(paths \ {p}, listing \div Cardinality(paths))
    IN IF paths = {} THEN <<>>
       ELSE From(Nth(paths, listing % Cardinality(paths)))

\* IntoIter::push: read the directory, sort its entries, push the list.
Push(dir, w) ==
    LET Pushed(r) ==
            IF r.panic THEN [w |-> w, panic |-> "sort: not a file or directory"]
            ELSE [w |-> [w EXCEPT !.stack_list = Append(@, r.list)],
                  panic |-> "none"]
    IN Pushed(SortItems(<<>>, ReadDir(Children(dir), w.listing)))

Ret(w, item, why) == [w |-> w, item |-> item, panic |-> why]

\* IntoIter::next.  The root is read but not yielded (min_depth(1)); an entry
\* that is a directory is pushed before it is yielded.
RECURSIVE IntoIterNext(_)
IntoIterNext(w) ==
    LET \* handle_entry for the root
        Root(p) ==
            IF p.panic # "none" THEN Ret(p.w, NoneItem, p.panic)
            ELSE IntoIterNext(p.w)
        \* handle_entry for a directory
        Dir(dent, p) ==
            IF p.panic # "none" THEN Ret(p.w, NoneItem, p.panic)
            ELSE Ret(p.w, dent, "none")
        Entry(dent, w1) ==
            IF dent.tag = "err" THEN Ret(w1, dent, "none")
            ELSE IF IsDir(dent.path) THEN Dir(dent, Push(dent.path, w1))
            ELSE Ret(w1, dent, "none")
        Top(top) ==
            IF top = <<>>
            THEN IntoIterNext([w EXCEPT !.stack_list = Front(@)])
            ELSE Entry(Head(top),
                       [w EXCEPT !.stack_list[Len(w.stack_list)] = Tail(top)])
    IN IF w.start
       THEN IF ~data_root_exists
            THEN Ret([w EXCEPT !.start = FALSE], ErrItem(DataRoot), "none")
            ELSE Root(Push(DataRoot, [w EXCEPT !.start = FALSE]))
       ELSE IF w.stack_list = <<>> THEN Ret(w, NoneItem, "none")
       ELSE Top(Last(w.stack_list))

\* skip_current_dir that skips nothing (what Iterator::filter would do).
skip_current_dirNoop(w) == w

\* IntoIter::skip_current_dir
skip_current_dir(w) ==
    IF w.stack_list = <<>> THEN w ELSE [w EXCEPT !.stack_list = Front(@)]

\* The closure find_in_paths hands to filter_entry: the caller's predicate
\* for a directory, true for anything else.
FilterPredicate(accept, path) == IF IsDir(path) THEN path \in accept ELSE TRUE

\* FilterEntry::next: an entry the predicate rejects is dropped, and not
\* descended into when it is a directory.  calls records the directories the
\* caller's predicate was called with, and how many entries the walker had
\* yielded by then.
RECURSIVE FilterEntryNext(_)
FilterEntryNext(w) ==
    LET Called(w1, item) ==
            IF FilterPredicate(path_filter, item.path)
            THEN Ret(w1, item, "none")
            ELSE FilterEntryNext(IF IsDir(item.path)
                                 THEN skip_current_dir(w1) ELSE w1)
        Got(r) ==
            IF r.panic # "none" \/ r.item.tag # "ok" THEN r
            ELSE Called(IF IsDir(r.item.path)
                        THEN [r.w EXCEPT !.calls =
                                  Append(@, [path |-> r.item.path,
                                             at |-> Len(r.w.walked)])]
                        ELSE r.w,
                        r.item)
    IN Got(IntoIterNext(w))

\* Walker::next of the iterator BenchmarkIter wraps; walked records what it
\* yielded.
WalkerNext(w) ==
    LET Log(r) ==
            IF r.item.tag = "none" THEN r
            ELSE [r EXCEPT !.w.walked = Append(@, r.item)]
    IN IF filtered THEN Log(FilterEntryNext(w)) ELSE Log(IntoIterNext(w))

\* Peekable::peek and Peekable::next.  peeked is <<>> or holds the item
\* (NoneItem included) taken from the walker ahead of time.
Peek(w) ==
    LET Keep(r) == Ret([r.w EXCEPT !.peeked = <<r.item>>], r.item, r.panic)
    IN IF w.peeked # <<>> THEN Ret(w, w.peeked[1], "none")
       ELSE Keep(WalkerNext(w))

PeekableNext(w) ==
    IF w.peeked # <<>> THEN Ret([w EXCEPT !.peeked = <<>>], w.peeked[1], "none")
    ELSE WalkerNext(w)

\* WalkDir::new(..).into_iter(), made peekable by BenchmarkIter::new.
NewWalker ==
    [start |-> TRUE, stack_list |-> <<>>, peeked |-> <<>>, calls |-> <<>>,
     walked |-> <<>>, listing |-> 0]

\* No earlier walk.
NoRun == [ran |-> FALSE, yielded |-> <<>>, panic |-> "none"]

----------------------------------------------------------------------------
(* BenchmarkIter *)

NoneResult ==
    [tag |-> "none", path_from_data_root |-> <<>>, metadata |-> <<>>,
     measurements |-> <<>>]
ErrResult(path) ==
    [tag |-> "err", path_from_data_root |-> <<>>, metadata |-> path,
     measurements |-> <<>>]

Out(w, files, result, why) ==
    [w |-> w, files |-> files, result |-> result, panic |-> why]

\* Benchmark::new without the assertion on the measurements.
BenchmarkNewAnyMeasurements(metadata, measurements) ==
    IF ~(IsFile(metadata) /\ FileName(metadata) = "benchmark.cbor")
    THEN [panic |-> "unexpected file", result |-> NoneResult]
    ELSE [panic |-> "none",
          result |-> [tag |-> "unit", path_from_data_root |-> Parent(metadata),
                      metadata |-> metadata, measurements |-> measurements]]

\* Benchmark::new: the assertions, then the benchmark.
BenchmarkNew(metadata, measurements) ==
    IF ~(IsFile(metadata) /\ FileName(metadata) = "benchmark.cbor")
    THEN [panic |-> "unexpected file", result |-> NoneResult]
    ELSE IF measurements = <<>>
    THEN [panic |-> "no measurements", result |-> NoneResult]
    ELSE [panic |-> "none",
          result |-> [tag |-> "unit", path_from_data_root |-> Parent(metadata),
                      metadata |-> metadata, measurements |-> measurements]]

\* emit_benchmark with the files cloned instead of taken: they stay in
\* files_in_current_dir.
emit_benchmarkKeepsFiles(w, files) ==
    LET Some(b) == Out(w, files, b.result, b.panic)
    IN IF files = <<>> THEN Out(w, <<>>, NoneResult, "none")
       ELSE Some(BenchmarkNew(Last(files), Front(files)))

\* BenchmarkIter::emit_benchmark: None when no file was collected; else the
\* last file is the metadata and the others are the measurements.
emit_benchmark(w, files) ==
    LET Some(b) == Out(w, <<>>, b.result, b.panic)
    IN IF files = <<>> THEN Out(w, <<>>, NoneResult, "none")
       ELSE Some(BenchmarkNew(Last(files), Front(files)))

\* A test that takes any entry for a file of the benchmark being collected.
SameBenchmarkAnyEntry(entry, last_file) == TRUE

\* The test of BenchmarkIter::next for a file of the benchmark being collected.
SameBenchmark(entry, last_file) ==
    /\ Depth(entry) = Depth(last_file)
    /\ IsFile(entry)
    /\ Parent(entry) = Parent(last_file)

\* The arm with the error taken from the walker and None returned.
ForwardErrorDropped(n, files) == Out(n.w, files, NoneResult, "none")

\* The Some(Err(_)) arm of BenchmarkIter::next: n is what walker.next()
\* returned, the error that was peeked.
ForwardError(n, files) == Out(n.w, files, ErrResult(n.item.path), "none")

\* The 'files loop of BenchmarkIter::next.
RECURSIVE FilesLoop(_, _)
FilesLoop(w, files) ==
    LET Err(n) == ForwardError(n, files)
        Push1(n, entry) == FilesLoop(n.w, Append(files, entry))
        Pop(n, entry) == FilesLoop(n.w, IF IsFile(entry) THEN <<entry>> ELSE <<>>)
        Ok(w1, entry) ==
            IF IsSymlink(entry) THEN Out(w1, files, NoneResult, "symlink")
            ELSE IF ~(IsFile(entry) \/ IsDir(entry))
                 THEN Out(w1, files, NoneResult, "not a file or directory")
            ELSE IF files # <<>>
                 THEN IF SameBenchmark(entry, Last(files))
                      THEN Push1(PeekableNext(w1), entry)
                      ELSE emit_benchmark(w1, files)
            ELSE Pop(PeekableNext(w1), entry)
        Peeked(pk) ==
            IF pk.panic # "none" THEN Out(pk.w, files, NoneResult, pk.panic)
            ELSE IF pk.item.tag = "none" THEN emit_benchmark(pk.w, files)
            ELSE IF pk.item.tag = "err" THEN Err(PeekableNext(pk.w))
            ELSE Ok(pk.w, pk.item.path)
    IN Peeked(Peek(w))

\* The loop goes on: next() has not returned.
Continue ==
    [tag |-> "continue", path_from_data_root |-> <<>>, metadata |-> <<>>,
     measurements |-> <<>>]

\* A None arm that reports the end of the walk and drops what was collected.
EndOfWalkDropsFiles(w, files) == Out(w, <<>>, NoneResult, "none")

\* The None arm of the match on walker.peek(): the walk is over, the files
\* collected are flushed.
EndOfWalk(w, files) == emit_benchmark(w, files)

\* One turn of the 'files loop of BenchmarkIter::next: it returns (a unit,
\* an error, None, or a panic) or goes on with the next turn.
FilesTurn(w, files) ==
    LET Err(n) == ForwardError(n, files)
        Push1(n, entry) == Out(n.w, Append(files, entry), Continue, "none")
        Pop(n, entry) ==
            Out(n.w, IF IsFile(entry) THEN <<entry>> ELSE <<>>, Continue, "none")
        Ok(w1, entry) ==
            IF IsSymlink(entry) THEN Out(w1, files, NoneResult, "symlink")
            ELSE IF ~(IsFile(entry) \/ IsDir(entry))
                 THEN Out(w1, files, NoneResult, "not a file or directory")
            ELSE IF files # <<>>
                 THEN IF SameBenchmark(entry, Last(files))
                      THEN Push1(PeekableNext(w1), entry)
                      ELSE emit_benchmark(w1, files)
            ELSE Pop(PeekableNext(w1), entry)
        Peeked(pk) ==
            IF pk.panic # "none" THEN Out(pk.w, files, NoneResult, pk.panic)
            ELSE IF pk.item.tag = "none" THEN EndOfWalk(pk.w, files)
            ELSE IF pk.item.tag = "err" THEN Err(PeekableNext(pk.w))
            ELSE Ok(pk.w, pk.item.path)
    IN Peeked(Peek(w))

\* next() without the test of no_data.
BenchmarkIterNextAlwaysWalks(w, files) == FilesLoop(w, files)

\* BenchmarkIter::next
BenchmarkIterNext(w, files) ==
    IF no_data THEN Out(w, files, NoneResult, "none")
    ELSE FilesLoop(w, files)

----------------------------------------------------------------------------
(* RawBenchmarkId::decode.  An Option is <<>> (None) or <<x>> (Some(x)). *)

Strings == {"fib", "Sort"}
Throughputs ==
    {[unit |-> "Bytes", n |-> 1024], [unit |-> "BytesDecimal", n |-> 1000],
     [unit |-> "Elements", n |-> 10]}
Option(S) == {<<>>} \cup {<<x>> : x \in S}

RawBenchmarkIds ==
    [group_or_function_id : Strings, function_id_in_group : Option(Strings),
     value_str : Option(Strings), throughput : Option(Throughputs)]

NoRawBenchmarkId ==
    [group_or_function_id |-> "", function_id_in_group |-> <<>>,
     value_str |-> <<>>, throughput |-> <<>>]
NotDecoded == [variant |-> "not decoded"]

\* The arms of the match of RawBenchmarkId::decode.
BenchFunction(self) ==
    [variant |-> "BenchFunction", name |-> self.group_or_function_id]

\* unreachable!(..): the call panics.
ThroughputWithoutGroup(self) ==
    [variant |-> "panic",
     message |-> "Can't specify throughput in non-grouped Criterion benchmarks"]

InGroupFromParameter(self) ==
    [variant |-> "InGroup", group_id |-> self.group_or_function_id,
     member_id |-> [variant |-> "FromParameter", parameter |-> self.value_str[1]],
     throughput |-> <<self.throughput[1]>>]

\* The ambiguous arm decided by a guess: a member of a group without throughput.
AmbiguousGuessedInGroup(self) ==
    [variant |-> "InGroup", group_id |-> self.group_or_function_id,
     member_id |-> [variant |-> "FromParameter", parameter |-> self.value_str[1]],
     throughput |-> <<>>]

AmbiguousFromParameter(self) ==
    [variant |-> "AmbiguousFromParameter",
     group_or_function_id |-> self.group_or_function_id,
     parameter |-> self.value_str[1]]

InGroupString(self) ==
    [variant |-> "InGroup", group_id |-> self.group_or_function_id,
     member_id |-> [variant |-> "String", string |-> self.function_id_in_group[1]],
     throughput |-> self.throughput]

InGroupFull(self) ==
    [variant |-> "InGroup", group_id |-> self.group_or_function_id,
     member_id |-> [variant |-> "Full",
                    function_name |-> self.function_id_in_group[1],
                    parameter |-> self.value_str[1]],
     throughput |-> self.throughput]

\* RawBenchmarkId::decode: the match on (function_id_in_group, value_str,
\* throughput), the arms in the order of the source.
decode(self) ==
    LET function_id == self.function_id_in_group
        value_str == self.value_str
        throughput == self.throughput
    IN
    IF function_id = <<>> /\ value_str = <<>> /\ throughput = <<>>
    THEN BenchFunction(self)
    ELSE IF function_id = <<>> /\ value_str = <<>> /\ throughput # <<>>
    THEN ThroughputWithoutGroup(self)
    ELSE IF function_id = <<>> /\ value_str # <<>> /\ throughput # <<>>
    THEN InGroupFromParameter(self)
    ELSE IF function_id = <<>> /\ value_str # <<>> /\ throughput = <<>>
    THEN AmbiguousFromParameter(self)
    ELSE IF function_id # <<>> /\ value_str = <<>>
    THEN InGroupString(self)
    ELSE InGroupFull(self)

----------------------------------------------------------------------------
(* Connection::setup (src/src/sqlite.rs) *)

\* The benchmark.cbor files of a tree.
MetadataFiles(tree) == {p \in tree : FileName(p) = "benchmark.cbor"}

\* What the file system says of the benchmark.cbor files: the modification
\* time of each, the one whose metadata cannot be read (stat), the one whose
\* contents cannot be read (fs::read), the one that does not hold CBOR.
NoDisk == [mtime |-> <<>>, no_stat |-> {}, no_read |-> {}, corrupt |-> {}]

\* The database: whether the file exists, and the rows of its two tables as
\* the two SELECT statements of setup see them.
NoDatabase == [exists |-> FALSE, benchmark |-> {}, measurement |-> {}]

\* execute_batch(SCHEMA) on the file just created: tables without rows.
NewDatabase == [exists |-> TRUE, benchmark |-> {}, measurement |-> {}]

NotCalled ==
    [pc |-> "not called", connection |-> "none", optimized |-> FALSE,
     found |-> NoDatabase, known_measurements |-> <<>>, result |-> "none",
     decoder_calls |-> <<>>, processed |-> <<>>, pass |-> 1, previous |-> "none"]

\* The map built from SELECT relative_path, file_id FROM measurement: keyed
\* by relative path, the set of the file ids known for that path.
LoadKnownMeasurements(database) ==
    [path \in {row.relative_path : row \in database.measurement} |->
       {row.file_id : row \in {r \in database.measurement : r.relative_path = path}}]

\* SELECT modified FROM benchmark WHERE relative_path = ?1
CheckMtime(database, relative_path) ==
    {row.modified : row \in {r \in database.benchmark : r.relative_path = relative_path}}

\* What one turn of the loop of setup does with a benchmark: the outcome
\* ("next" for the next turn, or the error returned, or "panic"), the files
\* handed to the CBOR decoder, and the database afterwards.
Processed(outcome, decoded_files, database) ==
    [outcome |-> outcome, decoded_files |-> decoded_files, database |-> database]

\* Benchmark::metadata on a stale entry, and what follows it in the loop.
ReadStaleMetadata(files, database, benchmark) ==
    IF benchmark.metadata \in files.no_read THEN Processed("Io", <<>>, database)
    ELSE IF benchmark.metadata \in files.corrupt
    THEN Processed("panic", <<benchmark.metadata>>, database)
    ELSE Processed("next", <<benchmark.metadata>>, database)

\* file_mtime >= database_mtime in the place of >.
IsStaleOrEqual(file_mtime, database_mtime) == file_mtime >= database_mtime

\* if file_mtime > database_mtime
IsStale(file_mtime, database_mtime) == file_mtime > database_mtime

\* A turn of the loop that writes the measurement rows of the path anew,
\* from the files it sees, those already recorded included.
ProcessBenchmarkRewritesRows(files, database, known_measurements, benchmark) ==
    Processed("next", <<>>,
              [database EXCEPT !.measurement =
                 {row \in database.measurement :
                    row.relative_path # benchmark.path_from_data_root}
                 \cup {[relative_path |-> benchmark.path_from_data_root,
                        file_id |-> FileName(benchmark.measurements[k])] :
                         k \in 1..Len(benchmark.measurements)}])

\* The turn of the loop with an UPDATE that lacks its WHERE clause: a stale
\* entry sets the time of every row of benchmark.
ProcessBenchmarkTouchesAll(files, database, known_measurements, benchmark) ==
    IF benchmark.path_from_data_root \in DOMAIN known_measurements
    THEN IF CheckMtime(database, benchmark.path_from_data_root) = {}
         THEN Processed("Sqlite", <<>>, database)
         ELSE IF benchmark.metadata \in files.no_stat
         THEN Processed("Io", <<>>, database)
         ELSE IF IsStale(files.mtime[benchmark.metadata],
                         CHOOSE m \in CheckMtime(database, benchmark.path_from_data_root) : TRUE)
         THEN ReadStaleMetadata(
                files,
                [database EXCEPT !.benchmark =
                   {[row EXCEPT !.modified = files.mtime[benchmark.metadata]] :
                      row \in database.benchmark}],
                benchmark)
         ELSE Processed("next", <<>>, database)
    ELSE Processed("next", <<>>, database)

\* One turn of the loop of setup on the benchmark the walk has yielded.  The
\* three places where the database is to be written are comments in the
\* source ("TODO"): the database comes out as it went in.
ProcessBenchmark(files, database, known_measurements, benchmark) ==
    IF benchmark.path_from_data_root \in DOMAIN known_measurements
    THEN IF CheckMtime(database, benchmark.path_from_data_root) = {}
         THEN Processed("Sqlite", <<>>, database)
         ELSE IF benchmark.metadata \in files.no_stat
         THEN Processed("Io", <<>>, database)
         ELSE IF IsStale(files.mtime[benchmark.metadata],
                         CHOOSE m \in CheckMtime(database, benchmark.path_from_data_root) : TRUE)
         THEN ReadStaleMetadata(files, database, benchmark)
         ELSE Processed("next", <<>>, database)
    ELSE Processed("next", <<>>, database)

\* impl Drop for Connection: PRAGMA optimize, then the connection is closed.
\* setup builds no Connection, so that nothing of setup applies it.
ConnectionDrop(call) == [call EXCEPT !.optimized = TRUE, !.connection = "closed"]

\* The local rusqlite::Connection of setup goes out of scope (return, end of
\* the body, or unwinding): it is closed, and that is all.
Leave(call, pc, result) ==
    [call EXCEPT !.pc = pc, !.result = result, !.connection = "closed"]

----------------------------------------------------------------------------
(* Search::in_cargo_root and Measurement::data *)

\* A Cargo project that has been built: the root and target/ exist.
BuiltProject == [exists |-> TRUE, target |-> TRUE]

\* The trees below target/: target/ needs the root.
CargoRoots ==
    {[exists |-> FALSE, target |-> FALSE], [exists |-> TRUE, target |-> FALSE],
     BuiltProject}

\* Search::in_cargo_root, which ends in Search::in_target_dir: the assertion
\* that fails, "none" when the Search is made.
in_cargo_root(root) ==
    IF ~root.exists THEN "Specified Cargo root does not exist"
    ELSE IF ~root.target THEN "Specified target directory does not exist"
    ELSE "none"

\* f64 numbers are counted in halves: 2 is 1.0, 1 is 0.5, -2 is -1.0.
Floats == {-2, 0, 1, 2, 4}

\* The sequences of at most n elements of S.
SeqUpTo(S, n) == UNION {[1..k -> S] : k \in 0..n}

\* What a measurement file decodes to, as far as the checks go.  changes and
\* change_direction are options: <<>> or one element.
MeasurementDatas ==
    [iterations : SeqUpTo(Floats, MaxSamples), values : SeqUpTo(Floats, MaxSamples),
     avg_values : SeqUpTo(Floats, MaxSamples),
     changes : {<<>>, <<"estimates">>},
     change_direction : {<<>>, <<"Improved">>}]

\* A measurement file: whether fs::read gives its bytes ("no_read" when not),
\* whether they are CBOR of a MeasurementData ("corrupt" when not), and what
\* they decode to.
NoRecord ==
    [file |-> "none",
     contents |-> [iterations |-> <<>>, values |-> <<>>, avg_values |-> <<>>,
                   changes |-> <<>>, change_direction |-> <<>>]]
RecordFiles ==
    {[file |-> "ok", contents |-> c] : c \in MeasurementDatas}
    \cup {[NoRecord EXCEPT !.file = f] : f \in {"no_read", "corrupt"}}

NotRead == [tag |-> "not read"]

\* Measurement::data: the bytes are read and handed to the decoder, and what
\* it gives is returned; a read error is returned, a decode error panics.
MeasurementDataOf(file) ==
    IF file.file = "no_read" THEN [tag |-> "Err"]
    ELSE IF file.file = "corrupt" THEN [tag |-> "panic"]
    ELSE [tag |-> "Ok", data |-> file.contents]

----------------------------------------------------------------------------
(* Actions *)

Init ==
    /\ raw = NoRawBenchmarkId
    /\ decoded = NotDecoded
    /\ fs = {}
    /\ data_root_exists = FALSE
    /\ phase = "setup"
    /\ filtered = FALSE
    /\ path_filter = {}
    /\ no_data = FALSE
    /\ walker = NewWalker
    /\ files_in_current_dir = <<>>
    /\ yielded = <<>>
    /\ last = "not called"
    /\ panic = "none"
    /\ first_run = NoRun
    /\ cargo_root = BuiltProject
    /\ record = NoRecord
    /\ data = NotRead
    /\ disk = NoDisk
    /\ db = NoDatabase
    /\ setup = NotCalled

iterVars == <<filtered, path_filter, no_data, walker, files_in_current_dir,
              yielded, last, panic>>
idVars == <<raw, decoded>>
syncVars == <<disk, db, setup>>
envVars == <<cargo_root, record, data>>

\* cargo criterion creates the data directory.
CreateDataRoot ==
    /\ phase = "setup"
    /\ ~data_root_exists
    /\ data_root_exists' = TRUE
    /\ UNCHANGED <<fs, phase, iterVars, idVars, first_run, envVars, syncVars>>

\* Something (cargo criterion, or whatever else writes there) creates an entry.
CreateEntry(path) ==
    /\ phase = "setup"
    /\ data_root_exists
    /\ path \notin fs
    /\ Cardinality(fs) < MaxEntries
    /\ Parent(path) = DataRoot \/ Parent(path) \in fs
    /\ fs' = fs \cup {path}
    /\ UNCHANGED <<data_root_exists, phase, iterVars, idVars, first_run, envVars, syncVars>>

\* BenchmarkIter::new, for the walker of find_all or of find_in_paths.
BenchmarkIterNew(isFiltered, accept) ==
    /\ phase' = "iterating"
    /\ filtered' = isFiltered
    /\ path_filter' = accept
    /\ no_data' = ~data_root_exists
    /\ walker' = NewWalker
    /\ files_in_current_dir' = <<>>
    /\ UNCHANGED <<fs, data_root_exists, yielded, last, panic, idVars, first_run, envVars>>

\* Search::find_all
FindAll ==
    /\ phase = "setup"
    /\ BenchmarkIterNew(FALSE, {})
    /\ UNCHANGED syncVars

\* Search::find_in_paths with a predicate that accepts the directories of accept.
FindInPaths(accept) ==
    /\ phase = "setup"
    /\ BenchmarkIterNew(TRUE, accept)
    /\ UNCHANGED syncVars

\* A call of next() on the iterator.
IterNext ==
    /\ phase = "iterating"
    /\ \E r \in {BenchmarkIterNext(walker, files_in_current_dir)} :
       /\ walker' = r.w
       /\ files_in_current_dir' = r.files
       /\ panic' = r.panic
       /\ phase' = IF r.panic # "none" THEN "panicked" ELSE phase
       /\ last' = IF r.panic # "none" THEN "panic" ELSE r.result.tag
       /\ yielded' = IF r.panic = "none" /\ r.result.tag # "none"
                     THEN Append(yielded, r.result) ELSE yielded
    /\ UNCHANGED <<fs, data_root_exists, filtered, path_filter, no_data, idVars, first_run, envVars, syncVars>>

Next ==
    \/ CreateDataRoot
    \/ \E path \in AllPaths : CreateEntry(path)
    \/ FindAll
    \/ \E accept \in SUBSET {d \in fs : IsDir(d)} : FindInPaths(accept)
    \/ IterNext

Spec == Init /\ [][Next]_vars

\* The identifier decoder on its own: any identifier a benchmark.cbor file
\* may hold is decoded.
InitDecode ==
    /\ fs = {}
    /\ data_root_exists = FALSE
    /\ phase = "setup"
    /\ filtered = FALSE
    /\ path_filter = {}
    /\ no_data = FALSE
    /\ walker = NewWalker
    /\ files_in_current_dir = <<>>
    /\ yielded = <<>>
    /\ last = "not called"
    /\ panic = "none"
    /\ raw \in RawBenchmarkIds
    /\ decoded = NotDecoded
    /\ first_run = NoRun
    /\ cargo_root = BuiltProject
    /\ record = NoRecord
    /\ data = NotRead
    /\ disk = NoDisk
    /\ db = NoDatabase
    /\ setup = NotCalled

\* A call of RawBenchmarkId::decode.
Decode ==
    /\ decoded = NotDecoded
    /\ decoded' = decode(raw)
    /\ UNCHANGED <<fs, data_root_exists, phase, iterVars, raw, first_run, envVars, syncVars>>

NextDecode == Decode

SpecDecode == InitDecode /\ [][NextDecode]_vars

\* The trees setup is run on.
SyncTrees ==
    {fib \cup sort \cup lost :
       fib \in {{},
                {<<"fib">>, <<"fib", "benchmark.cbor">>},
                {<<"fib">>, <<"fib", "benchmark.cbor">>,
                 <<"fib", "measurement_250101120000.cbor">>},
                {<<"fib">>, <<"fib", "benchmark.cbor">>,
                 <<"fib", "measurement_250101120000.cbor">>,
                 <<"fib", "measurement_250102120000.cbor">>}},
       sort \in {{},
                 {<<"sort">>, <<"sort", "benchmark.cbor">>,
                  <<"sort", "measurement_250101120000.cbor">>}},
       lost \in {{}, {<<"lost">>}}}

Mtimes == 1..MaxMtime

\* The databases setup may find: a row of benchmark for some of the paths,
\* and rows of measurement for paths that have one.
BenchmarkTables ==
    {{[relative_path |-> path, modified |-> modified[path]] : path \in paths} :
       paths \in SUBSET {<<"fib">>, <<"sort">>},
       modified \in [{<<"fib">>, <<"sort">>} -> Mtimes]}
MeasurementTables(benchmark) ==
    SUBSET ({[relative_path |-> row.relative_path, file_id |-> id] :
               row \in benchmark, id \in MeasurementNames}
            \ {[relative_path |-> <<"sort">>, file_id |-> "measurement_250102120000.cbor"]})
Databases ==
    {NoDatabase} \cup
    UNION {{[exists |-> TRUE, benchmark |-> benchmark, measurement |-> measurement] :
              measurement \in MeasurementTables(benchmark)} :
             benchmark \in BenchmarkTables}

\* Connection::setup is about to be called: a data directory, some fault of
\* the file system on at most one benchmark.cbor file, and a database.
InitSync ==
    /\ raw = NoRawBenchmarkId
    /\ decoded = NotDecoded
    /\ data_root_exists \in BOOLEAN
    /\ fs \in IF data_root_exists THEN SyncTrees ELSE {{}}
    /\ phase = "setup"
    /\ filtered = FALSE
    /\ path_filter = {}
    /\ no_data = FALSE
    /\ walker = NewWalker
    /\ files_in_current_dir = <<>>
    /\ yielded = <<>>
    /\ last = "not called"
    /\ panic = "none"
    /\ disk \in {[mtime |-> mtime, no_stat |-> no_stat, no_read |-> no_read,
                  corrupt |-> corrupt] :
                   mtime \in [MetadataFiles(fs) -> Mtimes],
                   no_stat \in SUBSET MetadataFiles(fs),
                   no_read \in SUBSET MetadataFiles(fs),
                   corrupt \in SUBSET MetadataFiles(fs)}
    /\ Cardinality(disk.no_stat) + Cardinality(disk.no_read)
         + Cardinality(disk.corrupt) <= 1
    /\ db \in Databases
    /\ setup = NotCalled
    /\ first_run = NoRun
    /\ cargo_root = BuiltProject
    /\ record = NoRecord
    /\ data = NotRead

\* Connection::setup up to the loop: the database is created if it does not
\* exist and opened, the known measurements are loaded from it, and the walk
\* of find_all is made.
SetupOpen ==
    /\ setup.pc = "not called"
    /\ db' = IF db.exists THEN db ELSE NewDatabase
    /\ setup' = [setup EXCEPT
                   !.pc = "loop",
                   !.connection = "open",
                   !.found = db,
                   !.known_measurements =
                      IF db.exists THEN LoadKnownMeasurements(db) ELSE <<>>]
    /\ BenchmarkIterNew(FALSE, {})
    /\ UNCHANGED disk

\* One turn of the loop of setup: the walk is asked for its next item, and
\* the benchmark it yields, if it yields one, is processed.
SetupLoop ==
    /\ setup.pc = "loop"
    /\ \E r \in {BenchmarkIterNext(walker, files_in_current_dir)} :
       /\ walker' = r.w
       /\ files_in_current_dir' = r.files
       /\ panic' = r.panic
       /\ last' = IF r.panic # "none" THEN "panic" ELSE r.result.tag
       /\ yielded' = IF r.panic = "none" /\ r.result.tag # "none"
                     THEN Append(yielded, r.result) ELSE yielded
       /\ IF r.panic # "none"
          THEN /\ phase' = "panicked"
               /\ setup' = Leave(setup, "panicked", "none")
               /\ db' = db
          ELSE IF r.result.tag = "none"
          THEN /\ phase' = phase
               /\ setup' = Leave(setup, "end", "none")
               /\ db' = db
          ELSE IF r.result.tag = "err"
          THEN /\ phase' = phase
               /\ setup' = Leave(setup, "returned", "Walkdir")
               /\ db' = db
          ELSE \E q \in {ProcessBenchmark(disk, db, setup.known_measurements, r.result)} :
               /\ phase' = IF q.outcome = "panic" THEN "panicked" ELSE phase
               /\ db' = q.database
               /\ setup' =
                    IF q.outcome = "next"
                    THEN [setup EXCEPT
                            !.decoder_calls = setup.decoder_calls \o q.decoded_files,
                            !.processed = Append(setup.processed,
                                                 r.result.path_from_data_root)]
                    ELSE Leave([setup EXCEPT
                                  !.decoder_calls = setup.decoder_calls \o q.decoded_files],
                               IF q.outcome = "panic" THEN "panicked" ELSE "returned",
                               IF q.outcome = "panic" THEN "none" ELSE q.outcome)
    /\ UNCHANGED <<fs, data_root_exists, filtered, path_filter, no_data, idVars, first_run, envVars, disk>>

\* Connection::setup is called once more, on the database and the data
\* directory as the call before left them, after that call returned.
SetupAgain ==
    /\ setup.pc \in {"end", "returned"}
    /\ setup.pass < MaxPasses
    /\ setup' = [NotCalled EXCEPT !.pass = setup.pass + 1, !.previous = setup.pc]
    /\ phase' = "setup"
    /\ walker' = NewWalker
    /\ files_in_current_dir' = <<>>
    /\ yielded' = <<>>
    /\ last' = "not called"
    /\ UNCHANGED <<fs, data_root_exists, filtered, path_filter, no_data, panic,
                   idVars, first_run, envVars, disk, db>>

NextSync == SetupOpen \/ SetupLoop \/ SetupAgain

SpecSync == InitSync /\ [][NextSync]_vars

\* The trees the walk is run twice on.
TwiceTrees ==
    {root \cup fib \cup sub :
       root \in SUBSET {<<"link">>, <<"lost">>},
       fib \in {{}} \cup
               {{<<"fib">>} \cup files :
                  files \in SUBSET {<<"fib", "benchmark.cbor">>,
                                    <<"fib", "measurement_250101120000.cbor">>,
                                    <<"fib", "measurement_250102120000.cbor">>}},
       sub \in {{}, {<<"fib">>, <<"fib", "10">>, <<"fib", "10", "benchmark.cbor">>,
                     <<"fib", "10", "measurement_250101120000.cbor">>}}}

\* Some data directory, about to be walked.
InitTwice ==
    /\ raw = NoRawBenchmarkId
    /\ decoded = NotDecoded
    /\ data_root_exists \in BOOLEAN
    /\ fs \in IF data_root_exists THEN TwiceTrees ELSE {{}}
    /\ phase = "setup"
    /\ filtered = FALSE
    /\ path_filter = {}
    /\ no_data = FALSE
    /\ walker = NewWalker
    /\ files_in_current_dir = <<>>
    /\ yielded = <<>>
    /\ last = "not called"
    /\ panic = "none"
    /\ first_run = NoRun
    /\ cargo_root = BuiltProject
    /\ record = NoRecord
    /\ data = NotRead
    /\ disk = NoDisk
    /\ db = NoDatabase
    /\ setup = NotCalled

\* The walk has come to its end (None, or a panic) and the same search is
\* made and walked again, over the same tree, the file system now listing
\* every directory in the order of number listing.
WalkAgain(listing) ==
    /\ \/ phase = "iterating" /\ last = "none"
       \/ phase = "panicked"
    /\ ~first_run.ran
    /\ first_run' = [ran |-> TRUE, yielded |-> yielded, panic |-> panic]
    /\ phase' = "iterating"
    /\ no_data' = ~data_root_exists
    /\ walker' = [NewWalker EXCEPT !.listing = listing]
    /\ files_in_current_dir' = <<>>
    /\ yielded' = <<>>
    /\ last' = "not called"
    /\ panic' = "none"
    /\ UNCHANGED <<fs, data_root_exists, filtered, path_filter, idVars, envVars, syncVars>>

NextTwice ==
    \/ FindAll
    \/ \E accept \in SUBSET {d \in fs : IsDir(d)} : FindInPaths(accept)
    \/ IterNext
    \/ \E listing \in 0..MaxListing : WalkAgain(listing)

SpecTwice == InitTwice /\ [][NextTwice]_vars

\* A Cargo root, with or without target/ and the data directory below it.
InitSearch ==
    /\ raw = NoRawBenchmarkId
    /\ decoded = NotDecoded
    /\ cargo_root \in CargoRoots
    /\ data_root_exists \in IF cargo_root.target THEN BOOLEAN ELSE {FALSE}
    /\ fs \in IF data_root_exists THEN TwiceTrees ELSE {{}}
    /\ phase = "start"
    /\ filtered = FALSE
    /\ path_filter = {}
    /\ no_data = FALSE
    /\ walker = NewWalker
    /\ files_in_current_dir = <<>>
    /\ yielded = <<>>
    /\ last = "not called"
    /\ panic = "none"
    /\ first_run = NoRun
    /\ record = NoRecord
    /\ data = NotRead
    /\ disk = NoDisk
    /\ db = NoDatabase
    /\ setup = NotCalled

\* Search::in_cargo_root(cargo_root)
InCargoRoot ==
    /\ phase = "start"
    /\ panic' = in_cargo_root(cargo_root)
    /\ phase' = IF in_cargo_root(cargo_root) = "none" THEN "setup" ELSE "panicked"
    /\ UNCHANGED <<fs, data_root_exists, filtered, path_filter, no_data, walker,
                   files_in_current_dir, yielded, last, idVars, first_run, envVars,
                   syncVars>>

NextSearch == InCargoRoot \/ FindAll \/ IterNext

SpecSearch == InitSearch /\ [][NextSearch]_vars

\* A measurement file about to be read.
InitRead ==
    /\ raw = NoRawBenchmarkId
    /\ decoded = NotDecoded
    /\ cargo_root = BuiltProject
    /\ data_root_exists = TRUE
    /\ fs = {}
    /\ phase = "setup"
    /\ filtered = FALSE
    /\ path_filter = {}
    /\ no_data = FALSE
    /\ walker = NewWalker
    /\ files_in_current_dir = <<>>
    /\ yielded = <<>>
    /\ last = "not called"
    /\ panic = "none"
    /\ first_run = NoRun
    /\ record \in RecordFiles
    /\ data = NotRead
    /\ disk = NoDisk
    /\ db = NoDatabase
    /\ setup = NotCalled

\* A call of Measurement::data.
MeasurementData ==
    /\ data = NotRead
    /\ data' = MeasurementDataOf(record)
    /\ UNCHANGED <<fs, data_root_exists, phase, iterVars, idVars, first_run,
                   cargo_root, record, syncVars>>

NextRead == MeasurementData

SpecRead == InitRead /\ [][NextRead]_vars

\* BenchmarkIter::next, a turn of its loop at a time: the call begins with
\* the test of no_data, and while last is "continue" the call has not
\* returned.
LoopTurn ==
    /\ phase = "iterating"
    /\ \E r \in {IF no_data THEN Out(walker, files_in_current_dir, NoneResult, "none")
                 ELSE FilesTurn(walker, files_in_current_dir)} :
       /\ walker' = r.w
       /\ files_in_current_dir' = r.files
       /\ panic' = r.panic
       /\ phase' = IF r.panic # "none" THEN "panicked" ELSE phase
       /\ last' = IF r.panic # "none" THEN "panic" ELSE r.result.tag
       /\ yielded' = IF r.panic = "none" /\ r.result.tag \in {"unit", "err"}
                     THEN Append(yielded, r.result) ELSE yielded
    /\ UNCHANGED <<fs, data_root_exists, filtered, path_filter, no_data, idVars,
                   first_run, envVars, syncVars>>

NextTurns ==
    \/ FindAll
    \/ \E accept \in SUBSET {d \in fs : IsDir(d)} : FindInPaths(accept)
    \/ LoopTurn

SpecTurns == InitTwice /\ [][NextTurns]_vars

----------------------------------------------------------------------------
(* What the claims speak of *)

Indices(seq) == 1..Len(seq)
Range(seq) == {seq[i] : i \in Indices(seq)}
Dirs == {d \in fs : IsDir(d)}
FilesOf(d) == {p \in Children(d) : IsFile(p)}
\* The directories on the way from the data root down to path, path included.
DirsOnPath(path) == {SubSeq(path, 1, n) : n \in 1..Len(path)}
\* The directories the walk descends into: the data root, and with a
\* predicate every directory it accepts all the way down from the data root.
Reached(d) ==
    \/ d = DataRoot
    \/ /\ d \in Dirs
       /\ filtered => DirsOnPath(d) \subseteq path_filter
ReachedDirs == {d \in Dirs \cup {DataRoot} : Reached(d)}
Units == {i \in Indices(yielded) : yielded[i].tag = "unit"}
Errors == {i \in Indices(yielded) : yielded[i].tag = "err"}
UnitFiles(u) == {u.metadata} \cup Range(u.measurements)
\* next() has returned None: the walk is over.
WalkOver == phase = "iterating" /\ last = "none"

\* C1 (grouping): a unit holds all and only the files that its directory
\* directly contains, no two units are of the same directory, and when the
\* walk is over the directories that yielded a unit are the directories of
\* the walk that directly contain files: one unit each, none for a directory
\* without files.  An error is yielded only for an entry that cannot be read.
C1_Grouping ==
    /\ \A i \in Units :
         /\ UnitFiles(yielded[i]) = FilesOf(yielded[i].path_from_data_root)
         /\ Len(yielded[i].measurements) + 1 = Cardinality(UnitFiles(yielded[i]))
         /\ \A j \in Units : j # i =>
              yielded[j].path_from_data_root # yielded[i].path_from_data_root
    /\ WalkOver =>
         {yielded[i].path_from_data_root : i \in Units}
             = {d \in ReachedDirs : FilesOf(d) # {}}
    /\ \A i \in Errors : Kind(yielded[i].metadata) = "ioerr"

\* Two directories with files have each been yielded as a unit, one of them
\* below the other, and the walk is over.
C1_Witness ==
    /\ WalkOver
    /\ Cardinality(Units) = 2
    /\ \E i, j \in Units :
         yielded[i].path_from_data_root = Parent(yielded[j].path_from_data_root)
IsPrefix(p, q) == Len(p) <= Len(q) /\ SubSeq(q, 1, Len(p)) = p
Walked == walker.walked
WalkedOk == {i \in Indices(Walked) : Walked[i].tag = "ok"}

\* C2 (traversal order): of two entries of one directory that the walker
\* yields, a file comes before a subdirectory, the file with the greater name
\* before the file with the lesser name, the subdirectory with the lesser
\* name before the one with the greater name; and the walk is depth first: an
\* entry below a directory comes after that directory with only entries
\* below that directory in between.  When the walk is over every entry of
\* every directory walked has been yielded.
C2_TraversalOrder ==
    /\ \A i, j \in WalkedOk :
         (i < j /\ Parent(Walked[i].path) = Parent(Walked[j].path)) =>
           /\ ~(IsDir(Walked[i].path) /\ IsFile(Walked[j].path))
           /\ (IsFile(Walked[i].path) /\ IsFile(Walked[j].path)) =>
                OsStrCmp(FileName(Walked[i].path), FileName(Walked[j].path)) = "Greater"
           /\ (IsDir(Walked[i].path) /\ IsDir(Walked[j].path)) =>
                OsStrCmp(FileName(Walked[i].path), FileName(Walked[j].path)) = "Less"
    /\ \A j \in Indices(Walked) :
         Depth(Walked[j].path) > 1 =>
           \E i \in 1..(j - 1) :
             /\ Walked[i] = OkItem(Parent(Walked[j].path))
             /\ \A k \in (i + 1)..j : IsPrefix(Walked[i].path, Walked[k].path)
    /\ WalkOver =>
         \A d \in ReachedDirs : \A p \in Children(d) :
           (IsDir(p) => Reached(p)) => \E i \in Indices(Walked) : Walked[i].path = p

\* The walker has yielded two files and then two subdirectories of the data
\* root, with an entry of the first subdirectory before the second one.
C2_Witness ==
    /\ Len(Walked) = 5
    /\ IsFile(Walked[1].path) /\ IsFile(Walked[2].path)
    /\ IsDir(Walked[3].path)
    /\ Depth(Walked[4].path) = 2
    /\ IsDir(Walked[5].path) /\ Depth(Walked[5].path) = 1
\* Where the walker yielded the entry path (0 if it has not).
WalkedAt(path) ==
    IF \E i \in Indices(Walked) : Walked[i].path = path
    THEN CHOOSE i \in Indices(Walked) : Walked[i].path = path
    ELSE 0
IsMeasurement(path) == IsFile(path) /\ FileName(path) \in MeasurementNames
IsMetadata(path) == IsFile(path) /\ FileName(path) = "benchmark.cbor"

\* C3 (newest first, metadata last): in every unit the measurements are in
\* strictly descending order of their names, a measurement with a later
\* timestamp before one with an earlier timestamp; the metadata is none of the
\* measurements and is the file of its directory that the walk yielded last.
\* In the walk itself the benchmark.cbor of a directory comes after the
\* timestamped measurements of that directory, and these newest first.
C3_NewestFirstMetadataLast ==
    /\ \A i \in Units :
         LET u == yielded[i] IN
         /\ \A k \in 1..(Len(u.measurements) - 1) :
              OsStrCmp(FileName(u.measurements[k]),
                       FileName(u.measurements[k + 1])) = "Greater"
         /\ \A k, l \in Indices(u.measurements) :
              (/\ IsMeasurement(u.measurements[k])
               /\ IsMeasurement(u.measurements[l])
               /\ Later(parse_measurement_datetime(FileName(u.measurements[k])),
                        parse_measurement_datetime(FileName(u.measurements[l]))))
              => k < l
         /\ u.metadata \notin Range(u.measurements)
         /\ \A f \in FilesOf(u.path_from_data_root) :
              f # u.metadata => 0 < WalkedAt(f) /\ WalkedAt(f) < WalkedAt(u.metadata)
    /\ \A i, j \in WalkedOk :
         (/\ Parent(Walked[i].path) = Parent(Walked[j].path)
          /\ IsMeasurement(Walked[i].path)) =>
           /\ IsMetadata(Walked[j].path) => i < j
           /\ (/\ IsMeasurement(Walked[j].path)
               /\ Later(parse_measurement_datetime(FileName(Walked[i].path)),
                        parse_measurement_datetime(FileName(Walked[j].path))))
              => i < j

\* A unit has been yielded with the newer and the older measurement, in this
\* order, and benchmark.cbor as its metadata.
C3_Witness ==
    \E i \in Units :
      /\ Len(yielded[i].measurements) = 2
      /\ FileName(yielded[i].measurements[1]) = "measurement_250102120000.cbor"
      /\ FileName(yielded[i].measurements[2]) = "measurement_250101120000.cbor"
      /\ FileName(yielded[i].metadata) = "benchmark.cbor"
\* What Benchmark::new and the assertions of next() refuse in a directory.
HasForeignEntry(d) == \E p \in Children(d) : Kind(p) \in {"symlink", "other"}
MetadataIsLastFile(d) ==
    /\ Append(d, "benchmark.cbor") \in fs
    /\ \A f \in FilesOf(d) :
         f # Append(d, "benchmark.cbor") =>
           OsStrCmp(FileName(f), "benchmark.cbor") = "Greater"
HasMeasurements(d) == Cardinality(FilesOf(d)) >= 2

\* C4 (validation): every unit has a metadata reference that is a file named
\* benchmark.cbor, and at least one measurement reference, none of them named
\* benchmark.cbor; no unit is yielded for a directory whose last file in walk
\* order is not benchmark.cbor or that holds benchmark.cbor alone; the call of
\* next() that meets a symlink, or an entry that is neither a file nor a
\* directory, panics; and a walk ends with None only if no directory walked
\* breaks one of these rules.
C4_Validation ==
    /\ \A i \in Units :
         LET u == yielded[i] IN
         /\ IsFile(u.metadata) /\ FileName(u.metadata) = "benchmark.cbor"
         /\ Len(u.measurements) >= 1
         /\ \A k \in Indices(u.measurements) :
              FileName(u.measurements[k]) # "benchmark.cbor"
         /\ MetadataIsLastFile(u.path_from_data_root)
         /\ HasMeasurements(u.path_from_data_root)
    /\ \A i \in WalkedOk :
         Kind(Walked[i].path) \in {"symlink", "other"} => phase = "panicked"
    /\ phase = "panicked" <=> panic # "none"
    /\ (WalkOver /\ ~no_data) =>
         \A d \in ReachedDirs :
           /\ ~HasForeignEntry(d)
           /\ FilesOf(d) # {} => MetadataIsLastFile(d) /\ HasMeasurements(d)

\* After one unit, the walk has panicked on a directory that holds
\* benchmark.cbor alone.
C4_Witness ==
    /\ phase = "panicked"
    /\ panic = "no measurements"
    /\ Cardinality(Units) = 1
\* C5 (no data root): when the data root does not exist, whichever of
\* find_all and find_in_paths made the iterator, every call of next() returns
\* None: nothing is ever yielded, no error and no unit, and nothing panics.
C5_NoDataRoot ==
    (phase # "setup" /\ ~data_root_exists) =>
      /\ no_data
      /\ yielded = <<>>
      /\ last \in {"not called", "none"}
      /\ phase = "iterating"
      /\ panic = "none"

\* next() has been called on the iterator of find_in_paths with no data
\* root, and has returned None.
C5_Witness == ~data_root_exists /\ filtered /\ last = "none"

IsErr(x) == x.tag = "err"

\* C6 (I/O errors): the errors that next() has yielded are the errors that
\* the underlying walk has yielded, each once and in the same order; the
\* iterator is not over after an error; and when next() returns None every
\* entry that cannot be read has been reported and every directory of the
\* walk that directly contains files has been yielded as a unit, those after
\* an error included.
C6_ErrorsForwarded ==
    /\ Len(SelectSeq(yielded, IsErr)) = Len(SelectSeq(Walked, IsErr))
    /\ \A i \in Indices(SelectSeq(yielded, IsErr)) :
         SelectSeq(yielded, IsErr)[i].metadata = SelectSeq(Walked, IsErr)[i].path
    /\ last = "err" => phase = "iterating"
    /\ (WalkOver /\ ~no_data) =>
         /\ {yielded[i].metadata : i \in Errors}
              = {p \in fs : Kind(p) = "ioerr" /\ Reached(Parent(p))}
         /\ Cardinality(Errors)
              = Cardinality({p \in fs : Kind(p) = "ioerr" /\ Reached(Parent(p))})
         /\ \A d \in ReachedDirs :
              FilesOf(d) # {} =>
                \E i \in Units : yielded[i].path_from_data_root = d

\* The walk is over, and it yielded a unit after an error.
C6_Witness ==
    /\ WalkOver
    /\ \E i \in Errors : \E j \in Units : i < j

Calls == walker.calls

\* C7 (filtered walk): the predicate is called with directories of the tree
\* only (never a file, never the data root), never twice with the same one,
\* and only with a directory whose parent the walk descends into; when the
\* walk is over it has been called with every such directory.  Whatever the
\* walker yields, the predicate was called before with every directory on
\* the way down to it, and accepted it.  The directory of every unit and the
\* directories above it were accepted, and when the walk is over the units
\* are those of the accepted directories that directly contain files; no
\* entry that is not a directory is withheld from the walk.  find_all calls
\* no predicate.
C7_FilteredWalk ==
    /\ \A i \in Indices(Calls) :
         /\ Calls[i].path \in Dirs
         /\ Calls[i].path # DataRoot
         /\ Reached(Parent(Calls[i].path))
         /\ \A j \in Indices(Calls) : j # i => Calls[j].path # Calls[i].path
    /\ ~filtered => Calls = <<>>
    /\ filtered =>
         /\ \A i \in Indices(Walked) :
              \A d \in DirsOnPath(IF Walked[i].tag = "ok" /\ IsDir(Walked[i].path)
                                  THEN Walked[i].path
                                  ELSE Parent(Walked[i].path)) :
                /\ d \in path_filter
                /\ \E c \in Indices(Calls) : Calls[c].path = d /\ Calls[c].at < i
         /\ \A i \in Units :
              DirsOnPath(yielded[i].path_from_data_root) \subseteq path_filter
         /\ (WalkOver /\ ~no_data) =>
              /\ {Calls[i].path : i \in Indices(Calls)}
                   = {d \in Dirs : Reached(Parent(d))}
              /\ {yielded[i].path_from_data_root : i \in Units}
                   = {d \in Dirs \cup {DataRoot} :
                        /\ DirsOnPath(d) \subseteq path_filter
                        /\ FilesOf(d) # {}}
              /\ \A d \in ReachedDirs : \A p \in Children(d) :
                   ~IsDir(p) => \E i \in Indices(Walked) : Walked[i].path = p

\* A filtered walk is over: it yielded the unit of an accepted directory, and
\* none for a rejected directory although that one holds files.
C7_Witness ==
    /\ filtered /\ WalkOver
    /\ \E i \in Units : yielded[i].path_from_data_root # DataRoot
    /\ \E d \in Dirs : d \notin path_filter /\ FilesOf(d) # {}
Decoded == decoded # NotDecoded
NoSecondary == raw.function_id_in_group = <<>>
NoValue == raw.value_str = <<>>
NoThroughput == raw.throughput = <<>>

\* C8 (decoding is total): once decode has been called it has returned one
\* of the variants, whatever fields are present, and the four combinations of
\* the claim give the identity of the claim, with the strings of the input.
C8_TotalDecoding ==
    Decoded =>
      /\ decoded.variant \in {"BenchFunction", "InGroup", "AmbiguousFromParameter"}
      /\ (NoSecondary /\ NoValue /\ NoThroughput) =>
           decoded = [variant |-> "BenchFunction", name |-> raw.group_or_function_id]
      /\ (NoSecondary /\ ~NoValue /\ ~NoThroughput) =>
           decoded = [variant |-> "InGroup", group_id |-> raw.group_or_function_id,
                      member_id |-> [variant |-> "FromParameter",
                                     parameter |-> raw.value_str[1]],
                      throughput |-> raw.throughput]
      /\ (~NoSecondary /\ NoValue) =>
           decoded = [variant |-> "InGroup", group_id |-> raw.group_or_function_id,
                      member_id |-> [variant |-> "String",
                                     string |-> raw.function_id_in_group[1]],
                      throughput |-> raw.throughput]
      /\ (~NoSecondary /\ ~NoValue) =>
           decoded = [variant |-> "InGroup", group_id |-> raw.group_or_function_id,
                      member_id |-> [variant |-> "Full",
                                     function_name |-> raw.function_id_in_group[1],
                                     parameter |-> raw.value_str[1]],
                      throughput |-> raw.throughput]

\* C9 (ambiguous identity): a raw identity with no secondary string, a value
\* string and no throughput decodes to AmbiguousFromParameter carrying the
\* primary string and the value string of the input, and nothing else decodes
\* to AmbiguousFromParameter.
C9_AmbiguousKeptDistinct ==
    Decoded =>
      /\ (NoSecondary /\ ~NoValue /\ NoThroughput) =>
           decoded = [variant |-> "AmbiguousFromParameter",
                      group_or_function_id |-> raw.group_or_function_id,
                      parameter |-> raw.value_str[1]]
      /\ decoded.variant = "AmbiguousFromParameter" =>
           NoSecondary /\ ~NoValue /\ NoThroughput

\* decode has been called on an identity with a value string only, the two
\* strings different.
C9_Witness ==
    /\ Decoded /\ NoSecondary /\ ~NoValue /\ NoThroughput
    /\ raw.value_str[1] # raw.group_or_function_id

\* C10 (throughput without group): decode called on a raw identity with no
\* secondary string, no value string and a throughput returns to its caller:
\* it does not panic, and what it returns is none of the identities.
C10_InvalidSchemaSignal ==
    (Decoded /\ NoSecondary /\ NoValue /\ ~NoThroughput) =>
      decoded.variant \notin
        {"panic", "BenchFunction", "InGroup", "AmbiguousFromParameter"}
----------------------------------------------------------------------------
(* Connection::setup: what the claims speak of *)

\* setup has left: by the end of its body, by returning an error, or by a panic.
PassOver == setup.pc \in {"end", "returned", "panicked"}
PassFailed == setup.pc \in {"returned", "panicked"}

\* The rows of a path in a database.
BenchmarkRows(database, path) ==
    {row \in database.benchmark : row.relative_path = path}
MeasurementIds(database, path) ==
    {row.file_id : row \in {r \in database.measurement : r.relative_path = path}}

\* The path is known to the database that setup found.
KnownPath(path) == BenchmarkRows(setup.found, path) # {}

\* The names of the measurement files of a unit of the walk.
Observed(u) == {FileName(u.measurements[k]) : k \in Indices(u.measurements)}
DecodedFiles == Range(setup.decoder_calls)

\* C11 (sync minimality): when setup has run to its end, for every unit whose
\* path has measurement rows in the database found, all of files that the
\* walk still sees, and that has exactly one measurement file more, the
\* database holds the rows it held and one more, that of the new file, and
\* none of the files already known was handed to the decoder.
C11_SyncMinimality ==
    setup.pc = "end" =>
      \A i \in Units :
        LET u == yielded[i]
            known == MeasurementIds(setup.found, u.path_from_data_root)
        IN (/\ known # {}
            /\ known \subseteq Observed(u)
            /\ Cardinality(Observed(u) \ known) = 1)
           => /\ MeasurementIds(db, u.path_from_data_root) = Observed(u)
              /\ Cardinality(MeasurementIds(db, u.path_from_data_root))
                   = Cardinality(known) + 1
              /\ \A f \in DecodedFiles :
                   ~(Parent(f) = u.path_from_data_root /\ FileName(f) \in known)
\* The modification time that the database found records for a path.
FoundMtime(path) == (CHOOSE row \in BenchmarkRows(setup.found, path) : TRUE).modified

\* C12 (sync staleness): for a path known to the database, when the
\* benchmark.cbor file is not newer than the database says (older, or of the
\* very same time), setup does not hand that file to the decoder, and the row
\* of the path stays as it was found.
C12_NotNewerNotReread ==
    setup.pc # "not called" =>
      \A f \in MetadataFiles(fs) :
        (KnownPath(Parent(f)) /\ disk.mtime[f] <= FoundMtime(Parent(f))) =>
          /\ f \notin DecodedFiles
          /\ BenchmarkRows(db, Parent(f)) = BenchmarkRows(setup.found, Parent(f))

\* setup has run to its end over a benchmark with measurements in the
\* database whose benchmark.cbor has exactly the time the database records,
\* and over a second one whose file is newer and was decoded.
C12_Witness ==
    /\ setup.pc = "end"
    /\ <<"fib">> \in DOMAIN setup.known_measurements
    /\ <<"fib">> \in Range(setup.processed)
    /\ disk.mtime[<<"fib", "benchmark.cbor">>] = FoundMtime(<<"fib">>)
    /\ DecodedFiles = {<<"sort", "benchmark.cbor">>}

\* C13 (stale metadata): when setup has run to its end, for every benchmark
\* of the walk whose path is known and whose benchmark.cbor is newer than the
\* database recorded, the file was decoded and the row of the path now
\* records the time of the file.
C13_StaleOverwritten ==
    setup.pc = "end" =>
      \A i \in Units :
        LET u == yielded[i] IN
        (/\ KnownPath(u.path_from_data_root)
         /\ disk.mtime[u.metadata] > FoundMtime(u.path_from_data_root))
        => /\ u.metadata \in DecodedFiles
           /\ BenchmarkRows(db, u.path_from_data_root)
                = {[relative_path |-> u.path_from_data_root,
                    modified |-> disk.mtime[u.metadata]]}

\* C14 (unknown path): when setup has run to its end, for every benchmark of
\* the walk whose path the database did not know, the metadata and every
\* measurement were decoded, and the database holds one row for the path and
\* one measurement row for each measurement file.
C14_UnknownInserted ==
    setup.pc = "end" =>
      \A i \in Units :
        LET u == yielded[i] IN
        ~KnownPath(u.path_from_data_root) =>
          /\ u.metadata \in DecodedFiles
          /\ \A k \in Indices(u.measurements) : u.measurements[k] \in DecodedFiles
          /\ Cardinality(BenchmarkRows(db, u.path_from_data_root)) = 1
          /\ MeasurementIds(db, u.path_from_data_root) = Observed(u)

\* C15 (index equals walk): when setup has run to its end, the database has
\* a row for the path of every benchmark of the walk, and the file ids of the
\* path's measurement rows are the names of the measurement files the walk
\* yielded for it.
C15_IndexEqualsWalk ==
    setup.pc = "end" =>
      \A i \in Units :
        /\ BenchmarkRows(db, yielded[i].path_from_data_root) # {}
        /\ MeasurementIds(db, yielded[i].path_from_data_root) = Observed(yielded[i])

TypedErrors == {"Sqlite", "SqliteFromSql", "Walkdir", "Io"}

\* C16 (failure aborts with an error value): an error of the walk, a
\* benchmark.cbor that cannot be read, and a benchmark.cbor that the
\* decoder rejects, each end setup by the return of one of the errors of
\* SetupError, with no benchmark processed afterwards and no panic.
C16_FailureIsTypedError ==
    /\ (setup.pc # "not called" /\ last = "err") =>
         setup.pc = "returned" /\ setup.result = "Walkdir"
    /\ (PassOver /\ last = "unit") =>
         /\ setup.pc = "returned"
         /\ setup.result \in TypedErrors
         /\ Last(yielded).path_from_data_root \notin Range(setup.processed)
    /\ \A f \in DecodedFiles \cap disk.corrupt :
         setup.pc = "returned" /\ setup.result \in TypedErrors

\* The rows of a database for the paths that setup has not processed.
Unprocessed(database) ==
    [benchmark |-> {row \in database.benchmark :
                      row.relative_path \notin Range(setup.processed)},
     measurement |-> {row \in database.measurement :
                        row.relative_path \notin Range(setup.processed)}]

C18_OptimizedBeforeRelease == setup.connection = "closed" => setup.optimized

\* C19 (no data root): when there is no data root, setup runs to the end of
\* its body in one turn of its loop: no error is returned, nothing panics,
\* no file is decoded and the database exists with the rows it had; a
\* database that did not exist or had no rows (no earlier pass saw a data
\* root) has no row of benchmark and no row of measurement afterwards.
C19_NoDataRootSync ==
    (~data_root_exists /\ setup.pc # "not called") =>
      /\ setup.pc \in {"loop", "end"}
      /\ setup.pc = "loop" => last = "not called"
      /\ setup.result = "none"
      /\ panic = "none"
      /\ yielded = <<>>
      /\ setup.decoder_calls = <<>>
      /\ db.exists
      /\ db.benchmark = setup.found.benchmark
      /\ db.measurement = setup.found.measurement
      /\ (setup.found.benchmark = {} /\ setup.found.measurement = {}) =>
           db.benchmark = {} /\ db.measurement = {}

\* setup has run to its end with no data root and no database beforehand.
C19_Witness ==
    /\ ~data_root_exists
    /\ setup.pc = "end"
    /\ ~setup.found.exists
    /\ db = NewDatabase
----------------------------------------------------------------------------
(* The walk run twice *)

IsUnit(x) == x.tag = "unit"

\* C20 (walk determinism): a second walk of the unchanged tree, whatever the
\* order in which the file system lists every directory this time, yields
\* at every moment a beginning of what the first walk yielded, and when it
\* has come to its end it has yielded the same units in the same order (same
\* path, same metadata file, same measurement files in the same order) and
\* has ended the same way.
C20_WalkDeterminism ==
    first_run.ran =>
      /\ Len(yielded) <= Len(first_run.yielded)
      /\ \A i \in Indices(yielded) :
           IsUnit(yielded[i]) => yielded[i] = first_run.yielded[i]
      /\ (phase = "panicked" \/ WalkOver) =>
           /\ SelectSeq(yielded, IsUnit) = SelectSeq(first_run.yielded, IsUnit)
           /\ panic = first_run.panic

\* The second walk is over; the file system listed the directories in
\* another order than for the first, and two units were yielded, one of them
\* with two measurements.
C20_Witness ==
    /\ first_run.ran /\ WalkOver
    /\ walker.listing # 0
    /\ Cardinality(Units) = 2
    /\ \E i \in Units : Len(yielded[i].measurements) = 2
----------------------------------------------------------------------------
(* Names of measurement files *)

\* The name is measurement_<digits>.cbor, as parse_measurement_datetime
\* expects it: the prefix, the extension, and only digits in between.
MatchesMeasurementPattern(name) ==
    LET bytes == OsBytes(name)
        prefix == OsBytes("measurement_")
        suffix == OsBytes(".cbor")
    IN /\ Len(bytes) > Len(prefix) + Len(suffix)
       /\ SubSeq(bytes, 1, Len(prefix)) = prefix
       /\ SubSeq(bytes, Len(bytes) - Len(suffix) + 1, Len(bytes)) = suffix
       /\ \A k \in (Len(prefix) + 1)..(Len(bytes) - Len(suffix)) :
            bytes[k] \in 48..57

\* C21 (measurement names): every measurement of a yielded unit has a name
\* of the pattern measurement_<timestamp>.cbor; and a walk does not come to
\* its end over a directory that holds a file with another name than these
\* and benchmark.cbor, as such a file is fatal.
C21_StrictMeasurementNames ==
    /\ \A i \in Units : \A k \in Indices(yielded[i].measurements) :
         MatchesMeasurementPattern(FileName(yielded[i].measurements[k]))
    /\ (WalkOver /\ ~no_data) =>
         \A d \in ReachedDirs : \A f \in FilesOf(d) :
           \/ FileName(f) = "benchmark.cbor"
           \/ MatchesMeasurementPattern(FileName(f))
----------------------------------------------------------------------------
(* Search::in_cargo_root *)

\* C22 (in_cargo_root panics only for a missing root): when the Cargo root
\* exists, in_cargo_root makes the Search without a panic; and when no
\* benchmark was ever run there (no data root, with or without target/),
\* find_all yields nothing: no item and no panic, whatever the number of
\* calls of next().
C22_PanicsOnlyForMissingRoot ==
    (cargo_root.exists /\ phase # "start") =>
      /\ ~data_root_exists =>
           /\ panic = "none"
           /\ phase \in {"setup", "iterating"}
           /\ yielded = <<>>
           /\ last \in {"not called", "none"}
      /\ panic \notin {"Specified Cargo root does not exist",
                       "Specified target directory does not exist"}

----------------------------------------------------------------------------
(* Measurement::data *)

\* avg is value / iterations, the three counted in halves.
IsQuotient(avg, value, iterations) == iterations # 0 /\ avg * iterations = 2 * value

\* The checks of the claim on a measurement record.
ValidMeasurementData(d) ==
    /\ Len(d.iterations) = Len(d.values)
    /\ Len(d.iterations) = Len(d.avg_values)
    /\ \A i \in Indices(d.iterations) : d.iterations[i] >= 0 /\ d.iterations[i] % 2 = 0
    /\ \A i \in Indices(d.iterations) :
         (i \in Indices(d.values) /\ i \in Indices(d.avg_values)) =>
           IsQuotient(d.avg_values[i], d.values[i], d.iterations[i])
    /\ (d.changes # <<>>) <=> (d.change_direction # <<>>)

\* C23 (validated measurement records): a record that Measurement::data
\* returns satisfies the checks: iterations, values and avg_values of equal
\* length, iteration counts whole and not negative, every average the
\* quotient of value and iterations, changes present exactly when
\* change_direction is.
C23_ReturnedRecordsAreValid ==
    data.tag = "Ok" => ValidMeasurementData(data.data)
----------------------------------------------------------------------------
(* An I/O error and the unit of its directory *)

\* The directories in which an entry failed, as the errors yielded tell.
FailedDirs == {Parent(yielded[i].metadata) : i \in Errors}

\* C24 (an error is fatal to its unit): no unit is yielded for a directory
\* in which an entry failed, and no file is in the accumulator when the
\* error is returned that a later unit could take up; when the walk is over
\* the other directories of the walk that directly contain files have been
\* yielded as units.
C24_ErrorDropsItsUnit ==
    /\ \A j \in Units : yielded[j].path_from_data_root \notin FailedDirs
    /\ (WalkOver /\ ~no_data) =>
         \A d \in ReachedDirs \ FailedDirs :
           FilesOf(d) # {} => \E i \in Units : yielded[i].path_from_data_root = d
----------------------------------------------------------------------------
(* Passes of Connection::setup, one after the other *)

TreatedAsKnown(path) == path \in DOMAIN setup.known_measurements

\* C29 (known means a benchmark row): in a pass, the path of a unit is
\* treated as known exactly when the database found has a benchmark row for
\* it, and the lookup of the recorded modification time never fails for
\* lack of a row.
C29_KnownIffBenchmarkRow ==
    setup.pc # "not called" =>
      /\ \A i \in Units :
           TreatedAsKnown(yielded[i].path_from_data_root)
             <=> KnownPath(yielded[i].path_from_data_root)
      /\ setup.result # "Sqlite"

\* C30 (sync idempotence): in a pass that follows a pass that ran to its end,
\* over the same tree, no file is handed to the decoder and the rows of the
\* database are those the pass found.
C30_SecondPassIdle ==
    (setup.pass > 1 /\ setup.previous = "end") =>
      /\ setup.decoder_calls = <<>>
      /\ setup.pc # "not called" => db = setup.found
----------------------------------------------------------------------------
(* The entries of the walk and the units *)

IsWalkedFile(item) == item.tag = "ok" /\ IsFile(item.path)
\* The files that the underlying walk has produced, in its order.
WalkedFiles ==
    [i \in Indices(SelectSeq(Walked, IsWalkedFile)) |->
       SelectSeq(Walked, IsWalkedFile)[i].path]
\* The files of the units of items, unit after unit, the measurements of a
\* unit and then its metadata.
RECURSIVE FilesOfUnits(_)
FilesOfUnits(items) ==
    IF items = <<>> THEN <<>>
    ELSE FilesOfUnits(Front(items))
           \o (IF Last(items).tag = "unit"
               THEN Append(Last(items).measurements, Last(items).metadata)
               ELSE <<>>)
\* The file that was peeked and not yet taken from the walker, if any.
PeekedFile ==
    IF walker.peeked # <<>> /\ IsWalkedFile(walker.peeked[1])
    THEN <<walker.peeked[1].path>> ELSE <<>>

\* C26 (conservation of entries): as long as the walk has met no error and
\* no fatal violation, the files that the underlying walk has produced are,
\* in the same order and each once, the files of the units yielded, followed
\* by the files still in the accumulator and by the entry that was peeked
\* and not taken, if it is a file; the entry peeked at a flush is still the
\* last that the underlying walk produced.  When the walk is over the files
\* produced are the files of the units.
C26_Conservation ==
    (panic = "none" /\ Errors = {}) =>
      /\ WalkedFiles = FilesOfUnits(yielded) \o files_in_current_dir \o PeekedFile
      /\ (walker.peeked # <<>> /\ walker.peeked[1].tag # "none") =>
           Walked # <<>> /\ Last(Walked) = walker.peeked[1]
      /\ WalkOver => WalkedFiles = FilesOfUnits(yielded)

\* The walk is over without an error; it yielded two units, and the flush
\* of one of them was triggered by an entry of the walk that came after its
\* files.
C26_Witness ==
    /\ WalkOver /\ Errors = {}
    /\ Cardinality(Units) = 2
    /\ Len(WalkedFiles) = 4
    /\ \E i \in Indices(Walked) : i > 1 /\ IsDir(Walked[i].path)
                                         /\ IsFile(Walked[i - 1].path)
----------------------------------------------------------------------------
(* BenchmarkIter::next, turn by turn *)

\* C27 (accumulator invariant): in every state, between two turns of the
\* loop as between two calls, the entries of the accumulator are files of
\* one directory and one depth, none of them a directory; and when next()
\* has returned a unit or None the accumulator is empty.
C27_AccumulatorInvariant ==
    /\ \A k \in Indices(files_in_current_dir) :
         /\ IsFile(files_in_current_dir[k])
         /\ ~IsDir(files_in_current_dir[k])
         /\ Parent(files_in_current_dir[k]) = Parent(files_in_current_dir[1])
         /\ Depth(files_in_current_dir[k]) = Depth(files_in_current_dir[1])
    /\ last \in {"unit", "none"} => files_in_current_dir = <<>>

\* A unit has been yielded and the loop is collecting the files of another
\* directory: two are in the accumulator.
C27_Witness ==
    /\ last = "continue"
    /\ Len(files_in_current_dir) = 2
    /\ Units # {}

\* What is left of the walk: twice the entries that the underlying walk has
\* not produced yet, one more for an entry peeked and not taken, two more as
\* long as the end of the underlying walk has not been peeked.
WalkMeasure ==
    2 * (Cardinality(fs) - Len(Walked))
      + (IF walker.peeked # <<>> /\ walker.peeked[1].tag # "none" THEN 1 ELSE 0)
      + (IF walker.peeked = <<NoneItem>> THEN 0 ELSE 2)

====
